---- MODULE Spec2Model ----
(***************************************************************************)
(* Battleship field validation (src/main.py).                              *)
(*                                                                         *)
(* A Python list is modelled as a function whose domain is 0..n-1, so the  *)
(* indices of the model are the indices of the code.  A board is a list of *)
(* lists of 0/1 cells.  The caller's board (field) and the private copy of *)
(* BattleShipsQuantityValidator (copy) are two objects; board_ref says     *)
(* which object the current validator's self.board refers to.              *)
(***************************************************************************)
EXTENDS Integers, Sequences, FiniteSets, TLC

VARIABLES
    field,                 \* the caller's board object
    field0,                \* history: the contents the caller supplied
    copy,                  \* the object made by deepcopy (<<>> before it exists)
    board_ref,             \* "field" or "copy": the object self.board refers to
    pc,                    \* position inside validate_battlefield
    vi,                    \* index of the loop over validators (0-based list)
    i_index, j_index,      \* position of the running validator's scan
    ship_length_to_count,  \* the tally of BattleShipsQuantityValidator
    result,                \* "none", "True", "False" or "IndexError" (uncaught)
    error,                 \* the message logged by logger.debug, or "none"
    constructed,           \* history: validators constructed in this call
    passed,                \* history: validators whose validate() returned True
    counted,               \* history: <<i, j, length>> of every ship counted
    zeroed,                \* history: cells the drop_* methods stored 0 to
    results                \* history: results of the completed calls

vars == <<field, field0, copy, board_ref, pc, vi, i_index, j_index,
          ship_length_to_count, result, error, constructed, passed, counted,
          zeroed, results>>

----------------------------------------------------------------------------
(* Program constants and bounds                                            *)

board_length == 10

\* result of a list index that is out of range
IndexError == -1

\* how many times the caller calls validate_battlefield on the same object
MaxCalls == 2

\* the longest run put in the flagman's lane of the generated fleets
MaxRun == 6

\* the longest run put in the lane of one single-cell ship
MaxSmall == 2

\* how far the run in the flagman's lane starts from the corner
MaxShift == 2

\* how far the row count and a row's length deviate from board_length
MaxDimDelta == 1

----------------------------------------------------------------------------
(* Python lists                                                            *)

len(l) == Cardinality(DOMAIN l)

\* l[i] is defined for -len(l) <= i < len(l)
InRange(l, i) == i \in DOMAIN l \/ (i < 0 /\ (i + len(l)) \in DOMAIN l)

Norm(l, i) == IF i < 0 THEN i + len(l) ELSE i

----------------------------------------------------------------------------
(* AbstractShipValidator                                                   *)

inspect_cell(b, i_coord, j_coord) ==
    IF InRange(b, i_coord)
    THEN LET column == b[Norm(b, i_coord)] IN
         IF InRange(column, j_coord) THEN column[Norm(column, j_coord)]
         ELSE IndexError
    ELSE IndexError

\* faulty variant: no range check before the lookup
get_neighbor_cell_status_unguarded(b, i_coord, j_coord) ==
    inspect_cell(b, i_coord, j_coord)

\* faulty variant: the last row and the last column count as outside
get_neighbor_cell_status_short(b, i_coord, j_coord) ==
    IF 0 <= i_coord /\ i_coord < board_length - 1
       /\ 0 <= j_coord /\ j_coord < board_length - 1
    THEN inspect_cell(b, i_coord, j_coord)
    ELSE 0

get_neighbor_cell_status(b, i_coord, j_coord) ==
    IF 0 <= i_coord /\ i_coord < board_length
       /\ 0 <= j_coord /\ j_coord < board_length
    THEN inspect_cell(b, i_coord, j_coord)
    ELSE 0

----------------------------------------------------------------------------
(* BoardValidator                                                          *)

\* faulty variant: the lengths of the rows are not checked
BoardValidator_check_rows_only(b) ==
    IF len(b) # board_length THEN "Board has wrong columns count"
    ELSE "True"

\* "True", or the message of the ValueError raised
BoardValidator_check(b) ==
    IF len(b) # board_length THEN "Board has wrong columns count"
    ELSE IF \E c \in DOMAIN b : len(b[c]) # board_length
         THEN "Column has wrong rows count"
         ELSE "True"

----------------------------------------------------------------------------
(* BattleShipsValidator                                                    *)

\* faulty variant: the collinear pair left/right is not accepted
check_if_neighbor_cells_set_up_correct_one_axis(b, i_coord, j_coord) ==
    LET left  == get_neighbor_cell_status(b, i_coord - 1, j_coord)
        right == get_neighbor_cell_status(b, i_coord + 1, j_coord)
        upper == get_neighbor_cell_status(b, i_coord, j_coord - 1)
        lower == get_neighbor_cell_status(b, i_coord, j_coord + 1)
    IN  IF IndexError \in {left, right, upper, lower} THEN "IndexError"
        ELSE IF (upper + left + right + lower) \in {0, 1} THEN "True"
        ELSE IF upper # 0 /\ lower # 0 /\ ~(left # 0 \/ right # 0) THEN "True"
        ELSE "Ship construction is wrong, cells are"

check_if_neighbor_cells_set_up_correct(b, i_coord, j_coord) ==
    LET left  == get_neighbor_cell_status(b, i_coord - 1, j_coord)
        right == get_neighbor_cell_status(b, i_coord + 1, j_coord)
        upper == get_neighbor_cell_status(b, i_coord, j_coord - 1)
        lower == get_neighbor_cell_status(b, i_coord, j_coord + 1)
    IN  IF IndexError \in {left, right, upper, lower} THEN "IndexError"
        ELSE IF (upper + left + right + lower) \in {0, 1} THEN "True"
        ELSE IF left # 0 /\ right # 0 /\ ~(upper # 0 \/ lower # 0) THEN "True"
        ELSE IF upper # 0 /\ lower # 0 /\ ~(left # 0 \/ right # 0) THEN "True"
        ELSE "Ship construction is wrong, cells are"

\* faulty variant: diagonal neighbours are not looked at
check_if_cross_cells_set_up_correct_off(b, i_coord, j_coord) == "True"

check_if_cross_cells_set_up_correct(b, i_coord, j_coord) ==
    LET left_upper  == get_neighbor_cell_status(b, i_coord - 1, j_coord + 1)
        left_lower  == get_neighbor_cell_status(b, i_coord - 1, j_coord - 1)
        right_upper == get_neighbor_cell_status(b, i_coord + 1, j_coord + 1)
        right_lower == get_neighbor_cell_status(b, i_coord + 1, j_coord - 1)
    IN  IF IndexError \in {left_upper, left_lower, right_upper, right_lower}
        THEN "IndexError"
        ELSE IF ~(left_upper # 0 \/ left_lower # 0 \/ right_upper # 0
                  \/ right_lower # 0)
             THEN "True"
             ELSE "Ship construction is wrong, ships are in contact by diagonal"

----------------------------------------------------------------------------
(* BattleShipsQuantityValidator                                            *)

\* faulty variant: the validator keeps the caller's object
deepcopy_alias(ref) == ref

\* the object the validator works on: a new object, never the argument
deepcopy(ref) == "copy"

ship_length_to_count_init == [key \in 1..4 |-> 5 - key]

\* the cells read by validate_ship_vertically / validate_ship_horizontally
vertical_cells(b, i_coord, j_coord, length) ==
    {get_neighbor_cell_status(b, i_coord + i, j_coord) : i \in 1..(length - 1)}

horizontal_cells(b, i_coord, j_coord, length) ==
    {get_neighbor_cell_status(b, i_coord, j_coord + i) : i \in 1..(length - 1)}

\* all(cells)
validate_ship_vertically(b, i_coord, j_coord, length) ==
    0 \notin vertical_cells(b, i_coord, j_coord, length)

validate_ship_horizontally(b, i_coord, j_coord, length) ==
    0 \notin horizontal_cells(b, i_coord, j_coord, length)

\* whether a store self.board[i][j] = 0 is in range
CanStore(b, i, j) == InRange(b, i) /\ InRange(b[Norm(b, i)], j)

Store0(b, cells) ==
    [i \in DOMAIN b |-> [j \in DOMAIN b[i] |->
        IF <<i, j>> \in cells THEN 0 ELSE b[i][j]]]

drop_vertically(b, i_coord, j_coord, length) ==
    Store0(b, {<<i_coord + i, j_coord>> : i \in 1..(length - 1)})

drop_horizontally(b, i_coord, j_coord, length) ==
    Store0(b, {<<i_coord, j_coord + i>> : i \in 1..(length - 1)})

\* faulty variant: the origin cell is zeroed with the trailing cells, and
\* index ranges are not tracked
drop_ship_with_origin(b, i_coord, j_coord, length) ==
    LET vertical == validate_ship_vertically(b, i_coord, j_coord, length)
        b1 == IF vertical
              THEN Store0(b, {<<i_coord + i, j_coord>> : i \in 0..(length - 1)})
              ELSE b
        horizontal == validate_ship_horizontally(b1, i_coord, j_coord, length)
        b2 == IF horizontal
              THEN Store0(b1, {<<i_coord, j_coord + i>> : i \in 0..(length - 1)})
              ELSE b1
    IN  [board |-> b2, found |-> vertical \/ horizontal, fault |-> FALSE,
         stored |-> (IF vertical
                     THEN {<<i_coord + i, j_coord>> : i \in 0..(length - 1)}
                     ELSE {})
                    \cup (IF horizontal
                          THEN {<<i_coord, j_coord + i>> : i \in 0..(length - 1)}
                          ELSE {})]

\* the board after drop_ship, its return value, whether an index it used
\* was out of range, and the cells it stored 0 to
drop_ship(b, i_coord, j_coord, length) ==
    LET vcells == vertical_cells(b, i_coord, j_coord, length)
        vertical == validate_ship_vertically(b, i_coord, j_coord, length)
        vfault == IndexError \in vcells
                  \/ (vertical /\ \E i \in 1..(length - 1) :
                                     ~CanStore(b, i_coord + i, j_coord))
        b1 == IF vertical /\ ~vfault
              THEN drop_vertically(b, i_coord, j_coord, length) ELSE b
        hcells == horizontal_cells(b1, i_coord, j_coord, length)
        horizontal == validate_ship_horizontally(b1, i_coord, j_coord, length)
        hfault == IndexError \in hcells
                  \/ (horizontal /\ \E i \in 1..(length - 1) :
                                       ~CanStore(b1, i_coord, j_coord + i))
        b2 == IF horizontal /\ ~hfault
              THEN drop_horizontally(b1, i_coord, j_coord, length) ELSE b1
    IN  [board |-> b2, found |-> vertical \/ horizontal,
         fault |-> vfault \/ hfault,
         stored |-> (IF vertical /\ ~vfault
                     THEN {<<i_coord + i, j_coord>> : i \in 1..(length - 1)}
                     ELSE {})
                    \cup (IF horizontal /\ ~hfault
                          THEN {<<i_coord, j_coord + i>> : i \in 1..(length - 1)}
                          ELSE {})]

drop_flagman(b, i_coord, j_coord) == drop_ship(b, i_coord, j_coord, 4)

drop_cruiser(b, i_coord, j_coord) == drop_ship(b, i_coord, j_coord, 3)

drop_destroyer(b, i_coord, j_coord) == drop_ship(b, i_coord, j_coord, 2)

\* one iteration of the loop body of validate for an occupied cell: the
\* length counted, the board afterwards, whether an index was out of range,
\* and the cells stored to
count_ship(b, i_coord, j_coord) ==
    LET f == drop_flagman(b, i_coord, j_coord) IN
    IF f.fault \/ f.found
    THEN [length |-> 4, board |-> f.board, fault |-> f.fault, stored |-> f.stored]
    ELSE LET c == drop_cruiser(b, i_coord, j_coord) IN
    IF c.fault \/ c.found
    THEN [length |-> 3, board |-> c.board, fault |-> c.fault, stored |-> c.stored]
    ELSE LET d == drop_destroyer(b, i_coord, j_coord) IN
    IF d.fault \/ d.found
    THEN [length |-> 2, board |-> d.board, fault |-> d.fault, stored |-> d.stored]
    ELSE [length |-> 1, board |-> b, fault |-> FALSE, stored |-> {}]

\* faulty variant: only the flagman's entry of the tally is checked
tally_ok_flagman_only(count) == count[4] = 0

\* all(map(lambda x: x == 0, self.ship_length_to_count.values()))
tally_ok(count) == \A key \in DOMAIN count : count[key] = 0

----------------------------------------------------------------------------
(* validate_battlefield                                                    *)

\* faulty variant: the fleet counter before the contact check
validators_swapped ==
    <<"BoardValidator", "BattleShipsQuantityValidator", "BattleShipsValidator">>

validators ==
    <<"BoardValidator", "BattleShipsValidator", "BattleShipsQuantityValidator">>

\* the object self.board refers to
Board == IF board_ref = "copy" THEN copy ELSE field

----------------------------------------------------------------------------
(* The boards the caller supplies                                          *)

Coords == (0..(board_length - 1)) \X (0..(board_length - 1))

\* the board_length x board_length board whose occupied cells are `cells`
Grid(cells) ==
    [i \in 0..(board_length - 1) |-> [j \in 0..(board_length - 1) |->
        IF <<i, j>> \in cells THEN 1 ELSE 0]]

ShipCells(i, j, length, dir) ==
    {IF dir = "h" THEN <<i, j + k>> ELSE <<i + k, j>> : k \in 0..(length - 1)}

\* two cruisers, three destroyers and three single-cell ships, on the edges,
\* in the corners and inside, no two of them touching
FixedShips ==
    ShipCells(0, 9, 3, "v") \cup ShipCells(2, 0, 3, "h")
    \cup ShipCells(2, 4, 2, "h") \cup ShipCells(4, 0, 2, "v")
    \cup ShipCells(9, 8, 2, "h")
    \cup ShipCells(2, 7, 1, "h") \cup ShipCells(4, 9, 1, "h")
    \cup ShipCells(9, 0, 1, "h")

\* FixedShips, a run of a cells in the flagman's lane (row 0, from column s,
\* kept clear of the cruiser in column 9) and a run of b cells in the lane of
\* the fourth single-cell ship (row 4, from column 4, kept clear of column 9)
FleetCells(a, b, s) ==
    FixedShips
    \cup {c \in ShipCells(0, s, a, "h") : c[2] <= board_length - 3}
    \cup {c \in ShipCells(4, 4, b, "h") : c[2] <= board_length - 3}

FullFleet == FleetCells(4, 1, 0)

\* the eight symmetries of the square
Sym(cells, t, fi, fj) ==
    LET c1 == IF t THEN {<<p[2], p[1]>> : p \in cells} ELSE cells
        c2 == IF fi THEN {<<board_length - 1 - p[1], p[2]>> : p \in c1} ELSE c1
    IN  IF fj THEN {<<p[1], board_length - 1 - p[2]>> : p \in c2} ELSE c2

FleetBoards ==
    {Grid(Sym(FleetCells(a, b, s), t, fi, fj)) :
        a \in 3..MaxRun, b \in 0..MaxSmall, s \in 0..MaxShift,
        t \in BOOLEAN, fi \in BOOLEAN, fj \in BOOLEAN}

\* the full fleet with one cell flipped
ToggleBoards ==
    {Grid((FullFleet \ {c}) \cup ({c} \ FullFleet)) : c \in Coords}

Offsets == {<<di, dj>> \in (-1..1) \X (-1..1) : <<di, dj>> # <<0, 0>>}

Anchors == {<<0, 0>>, <<0, 9>>, <<9, 9>>, <<5, 5>>}

\* an occupied cell and any set of its eight neighbours
NeighbourBoards ==
    {Grid(({c} \cup {<<c[1] + o[1], c[2] + o[2]>> : o \in s}) \cap Coords) :
        c \in Anchors, s \in SUBSET Offsets}

Dims ==
    {0} \cup ((board_length - MaxDimDelta)..(board_length + MaxDimDelta))

\* the full fleet cut or padded to nrows rows, row r having nr cells
ShapeBoard(nrows, r, nr) ==
    [i \in 0..(nrows - 1) |->
        [j \in 0..((IF i = r THEN nr ELSE board_length) - 1) |->
            IF <<i, j>> \in FullFleet THEN 1 ELSE 0]]

ShapeBoards ==
    {ShapeBoard(nrows, r, nr) : nrows \in Dims, r \in 0..board_length, nr \in Dims}

Inputs ==
    {Grid({})} \cup FleetBoards \cup ToggleBoards \cup NeighbourBoards
    \cup ShapeBoards

----------------------------------------------------------------------------
(* State machine                                                           *)

Init ==
    /\ field \in Inputs
    /\ field0 = field
    /\ copy = <<>>
    /\ board_ref = "field"
    /\ pc = "loop"
    /\ vi = 0
    /\ i_index = 0
    /\ j_index = 0
    /\ ship_length_to_count = ship_length_to_count_init
    /\ result = "none"
    /\ error = "none"
    /\ constructed = <<>>
    /\ passed = <<>>
    /\ counted = {}
    /\ zeroed = {}
    /\ results = <<>>

\* validate() returned True: the loop goes on to the next validator
Pass ==
    /\ pc' = "loop"
    /\ vi' = vi + 1
    /\ passed' = Append(passed, pc)
    /\ UNCHANGED <<result, error>>

\* validate() raised ValueError(msg): logger.debug(msg); return False
Raise(msg) ==
    /\ pc' = "return"
    /\ error' = msg
    /\ result' = "False"
    /\ UNCHANGED <<vi, passed>>

\* an IndexError is not caught by validate_battlefield
Uncaught ==
    /\ pc' = "return"
    /\ result' = "IndexError"
    /\ UNCHANGED <<vi, error, passed>>

\* for validator in validators: _validator = validator(field); after the
\* loop: return True
validate_battlefield ==
    /\ pc = "loop"
    /\ IF vi < Len(validators)
       THEN LET v == validators[vi + 1] IN
            /\ constructed' = Append(constructed, v)
            /\ pc' = v
            /\ i_index' = 0
            /\ j_index' = 0
            /\ IF v = "BattleShipsQuantityValidator"
               THEN LET r == deepcopy("field") IN
                    /\ board_ref' = r
                    /\ copy' = IF r = "copy" THEN field ELSE copy
                    /\ ship_length_to_count' = ship_length_to_count_init
               ELSE /\ board_ref' = "field"
                    /\ UNCHANGED <<copy, ship_length_to_count>>
            /\ UNCHANGED <<result>>
       ELSE /\ pc' = "return"
            /\ result' = "True"
            /\ UNCHANGED <<constructed, i_index, j_index, board_ref, copy,
                           ship_length_to_count>>
    /\ UNCHANGED <<field, field0, vi, error, passed, counted, zeroed, results>>

BoardValidator_validate ==
    /\ pc = "BoardValidator"
    /\ LET r == BoardValidator_check(Board) IN
       IF r = "True" THEN Pass ELSE Raise(r)
    /\ UNCHANGED <<field, field0, copy, board_ref, i_index, j_index,
                   ship_length_to_count, constructed, counted, zeroed, results>>

\* one iteration of the loops of BattleShipsValidator.validate
BattleShipsValidator_validate ==
    /\ pc = "BattleShipsValidator"
    /\ IF i_index >= len(Board)
       THEN Pass /\ UNCHANGED <<i_index, j_index>>
       ELSE IF j_index >= len(Board[i_index])
       THEN /\ i_index' = i_index + 1
            /\ j_index' = 0
            /\ UNCHANGED <<pc, vi, result, error, passed>>
       ELSE IF inspect_cell(Board, i_index, j_index) = 0
       THEN /\ j_index' = j_index + 1
            /\ UNCHANGED <<pc, vi, result, error, passed, i_index>>
       ELSE LET n == check_if_neighbor_cells_set_up_correct(Board, i_index, j_index)
                c == check_if_cross_cells_set_up_correct(Board, i_index, j_index)
            IN  IF n = "IndexError" THEN Uncaught /\ UNCHANGED <<i_index, j_index>>
                ELSE IF n # "True" THEN Raise(n) /\ UNCHANGED <<i_index, j_index>>
                ELSE IF c = "IndexError" THEN Uncaught /\ UNCHANGED <<i_index, j_index>>
                ELSE IF c # "True" THEN Raise(c) /\ UNCHANGED <<i_index, j_index>>
                ELSE /\ j_index' = j_index + 1
                     /\ UNCHANGED <<pc, vi, result, error, passed, i_index>>
    /\ UNCHANGED <<field, field0, copy, board_ref, ship_length_to_count,
                   constructed, counted, zeroed, results>>

\* one iteration of the loops of BattleShipsQuantityValidator.validate, and
\* the check of the tally after them
BattleShipsQuantityValidator_validate ==
    /\ pc = "BattleShipsQuantityValidator"
    /\ IF i_index >= len(Board)
       THEN /\ IF tally_ok(ship_length_to_count)
               THEN Pass ELSE Raise("Ships are incorrect")
            /\ UNCHANGED <<i_index, j_index, field, copy, ship_length_to_count,
                           counted, zeroed>>
       ELSE IF j_index >= len(Board[i_index])
       THEN /\ i_index' = i_index + 1
            /\ j_index' = 0
            /\ UNCHANGED <<pc, vi, result, error, passed, field, copy,
                           ship_length_to_count, counted, zeroed>>
       ELSE IF inspect_cell(Board, i_index, j_index) = 0
       THEN /\ j_index' = j_index + 1
            /\ UNCHANGED <<pc, vi, result, error, passed, i_index, field, copy,
                           ship_length_to_count, counted, zeroed>>
       ELSE \E s \in {count_ship(Board, i_index, j_index)} :
            IF s.fault
            THEN /\ Uncaught
                 /\ UNCHANGED <<i_index, j_index, field, copy,
                                ship_length_to_count, counted, zeroed>>
            ELSE /\ IF board_ref = "copy"
                    THEN copy' = s.board /\ UNCHANGED field
                    ELSE field' = s.board /\ UNCHANGED copy
                 /\ ship_length_to_count' =
                        [ship_length_to_count EXCEPT ![s.length] = @ - 1]
                 /\ counted' = counted \cup {<<i_index, j_index, s.length>>}
                 /\ zeroed' = zeroed \cup s.stored
                 /\ j_index' = j_index + 1
                 /\ UNCHANGED <<pc, vi, result, error, passed, i_index>>
    /\ UNCHANGED <<field0, board_ref, constructed, results>>

\* the caller calls validate_battlefield again with the same object
CallAgain ==
    /\ pc = "return"
    /\ Len(results) + 1 < MaxCalls
    /\ results' = Append(results, result)
    /\ pc' = "loop"
    /\ vi' = 0
    /\ i_index' = 0
    /\ j_index' = 0
    /\ result' = "none"
    /\ error' = "none"
    /\ constructed' = <<>>
    /\ passed' = <<>>
    /\ counted' = {}
    /\ zeroed' = {}
    /\ copy' = <<>>
    /\ board_ref' = "field"
    /\ ship_length_to_count' = ship_length_to_count_init
    /\ UNCHANGED <<field, field0>>

Next ==
    \/ validate_battlefield
    \/ BoardValidator_validate
    \/ BattleShipsValidator_validate
    \/ BattleShipsQuantityValidator_validate
    \/ CallAgain

Spec == Init /\ [][Next]_vars

----------------------------------------------------------------------------
(* Vocabulary of the properties: boards as the specification describes     *)
(* them, written without the operators of the validators                   *)

\* a cell of the board; the board has an implicit EMPTY border
Cell(b, i, j) ==
    IF i \in DOMAIN b THEN (IF j \in DOMAIN b[i] THEN b[i][j] ELSE 0) ELSE 0

Occupied(b) == {c \in Coords : Cell(b, c[1], c[2]) = 1}

IsSquare(b) ==
    /\ DOMAIN b = 0..(board_length - 1)
    /\ \A i \in DOMAIN b : DOMAIN b[i] = 0..(board_length - 1)

Orthogonal == {<<-1, 0>>, <<1, 0>>, <<0, -1>>, <<0, 1>>}

Diagonal == {<<-1, -1>>, <<-1, 1>>, <<1, -1>>, <<1, 1>>}

OccupiedAround(b, i, j, dirs) ==
    {d \in dirs : Cell(b, i + d[1], j + d[2]) = 1}

\* the straight-line rule and the no-diagonal-contact rule for one cell
CellContactOK(b, i, j) ==
    LET orth == OccupiedAround(b, i, j, Orthogonal) IN
    /\ OccupiedAround(b, i, j, Diagonal) = {}
    /\ \/ Cardinality(orth) <= 1
       \/ orth = {<<-1, 0>>, <<1, 0>>}
       \/ orth = {<<0, -1>>, <<0, 1>>}

ContactOK(b) == \A c \in Occupied(b) : CellContactOK(b, c[1], c[2])

\* the number of occupied cells in a row from (i, j) in direction d
RunFrom(b, i, j, d) ==
    CHOOSE n \in 0..board_length :
        /\ \A k \in 0..(n - 1) : Cell(b, i + k * d[1], j + k * d[2]) = 1
        /\ Cell(b, i + n * d[1], j + n * d[2]) = 0

\* ships: the maximal straight runs of two or more cells, as
\* <<i, j, direction, length>> of their first cell, and the occupied cells
\* with no occupied orthogonal neighbour, as runs of length 1
Ships(b) ==
    {<<c[1], c[2], d, RunFrom(b, c[1], c[2], d)>> :
        c \in {x \in Occupied(b) : OccupiedAround(b, x[1], x[2], Orthogonal) = {}},
        d \in {<<0, 1>>}}
    \cup
    {s \in {<<c[1], c[2], d, RunFrom(b, c[1], c[2], d)>> :
                c \in Occupied(b), d \in {<<0, 1>>, <<1, 0>>}} :
        /\ s[4] >= 2
        /\ Cell(b, s[1] - s[3][1], s[2] - s[3][2]) = 0}

CellsOf(s) == {<<s[1] + k * s[3][1], s[2] + k * s[3][2]>> : k \in 0..(s[4] - 1)}

ShipCount(b, length) == Cardinality({s \in Ships(b) : s[4] = length})

\* no cell of a ship is a cell of, or next to a cell of, another ship
Separated(b) ==
    \A s, t \in Ships(b) :
        s # t => \A x \in CellsOf(s), y \in CellsOf(t) :
                    \/ x[1] - y[1] > 1 \/ y[1] - x[1] > 1
                    \/ x[2] - y[2] > 1 \/ y[2] - x[2] > 1

\* one ship of length 4, two of 3, three of 2, four of 1, and no other ship
FleetComposition(b) ==
    /\ \A length \in 1..4 : ShipCount(b, length) = 5 - length
    /\ \A s \in Ships(b) : s[4] \in 1..4

ValidFleet(b) == IsSquare(b) /\ Separated(b) /\ FleetComposition(b)

Returned == pc = "return"

Last(seq) == seq[Len(seq)]

----------------------------------------------------------------------------
(* C1 *)

\* C1: validate_battlefield returns true only if the ships of the board
\* (its maximal straight runs) are exactly one of length 4, two of length 3,
\* three of length 2 and four of length 1; a board with a run longer than 4
\* cells, or a wrong count for some length, returns false.
C1_TrueOnlyForExactFleet ==
    (Returned /\ result = "True") => FleetComposition(field0)

----------------------------------------------------------------------------
(* C2 *)

\* C2: every board that holds exactly the fleet, its ships straight and
\* separated from each other orthogonally and diagonally, wherever they lie
\* (edges and corners included), makes validate_battlefield return true.
C2_ValidFleetAccepted ==
    (Returned /\ ValidFleet(field0)) => result = "True"

\* a valid fleet with ships in three corners and on all four edges, and its
\* flagman away from the corner, has been accepted
C2_Witness ==
    /\ Returned
    /\ result = "True"
    /\ ValidFleet(field0)
    /\ field0[9][9] = 1 /\ field0[0][9] = 1 /\ field0[9][0] = 1
    /\ field0[0][0] = 0 /\ field0[0][4] = 1

----------------------------------------------------------------------------
(* C3 *)

\* C3: calling validate_battlefield again on the same board object gives the
\* same result, and the caller's board never changes: the drop_* methods
\* store only into the private copy, whatever the call returns.
C3_SameResultNoMutation ==
    /\ field = field0
    /\ zeroed # {} => board_ref = "copy"
    /\ \A k \in DOMAIN results : results[k] = results[1]
    /\ (Returned /\ results # <<>>) => result = results[1]

\* a second call has returned true after its validator zeroed cells
C3_Witness ==
    /\ Returned
    /\ results # <<>>
    /\ result = "True"
    /\ zeroed # {}

----------------------------------------------------------------------------
(* C4 *)

\* C4: a board whose row count is not 10, or one of whose rows has not 10
\* cells (the empty board included), makes validate_battlefield return false.
C4_WrongShapeRejected ==
    (Returned /\ ~IsSquare(field0)) => result = "False"

\* a board of 10 rows with one row of 9 cells has been rejected
C4_Witness ==
    /\ Returned
    /\ result = "False"
    /\ len(field0) = board_length
    /\ \E i \in DOMAIN field0 : len(field0[i]) = board_length - 1

----------------------------------------------------------------------------
(* C5 *)

\* C5: the validators are constructed and run in the order shape, contact,
\* fleet; each starts only after every earlier one succeeded, the fleet
\* counter's copy and scan exist only after shape and contact succeeded, and
\* the first failure returns false with no later validator constructed.
C5_FixedOrderShortCircuit ==
    /\ \A k \in DOMAIN constructed :
          /\ k <= 3
          /\ constructed[k] = <<"BoardValidator", "BattleShipsValidator",
                                "BattleShipsQuantityValidator">>[k]
          /\ \A m \in 1..(k - 1) : m \in DOMAIN passed /\ passed[m] = constructed[m]
    /\ (copy # <<>> \/ counted # {} \/ zeroed # {}) =>
          /\ Len(passed) >= 2
          /\ passed[1] = "BoardValidator"
          /\ passed[2] = "BattleShipsValidator"
    /\ (Returned /\ result = "False") => Len(constructed) = Len(passed) + 1
    /\ (Returned /\ result = "True") => Len(passed) = 3

\* the contact check failed and the call returned false with no copy made
C5_Witness ==
    /\ Returned
    /\ result = "False"
    /\ constructed = <<"BoardValidator", "BattleShipsValidator">>
    /\ passed = <<"BoardValidator">>
    /\ copy = <<>>

----------------------------------------------------------------------------
(* C6 *)

LBoard == Grid({<<0, 0>>, <<0, 1>>, <<1, 1>>})

\* C6 as stated: the L-shaped triple (0,0), (0,1), (1,1) fails the contact
\* check with the bend error of the orthogonal-neighbour check.
C6_LTripleFailsWithBend ==
    (Returned /\ field0 = LBoard) =>
        /\ result = "False"
        /\ error = "Ship construction is wrong, cells are"

\* C6 amended: the L-shaped triple (0,0), (0,1), (1,1) fails the contact
\* check, and the error that aborts the scan is the diagonal-contact error,
\* raised at the first scanned cell (0,0).
C6_LTripleFailsWithDiagonal ==
    (Returned /\ field0 = LBoard) =>
        /\ result = "False"
        /\ Last(constructed) = "BattleShipsValidator"
        /\ error = "Ship construction is wrong, ships are in contact by diagonal"
        /\ i_index = 0 /\ j_index = 0

\* the call on the L-shaped triple has returned
C6_Witness == Returned /\ field0 = LBoard /\ result = "False"

----------------------------------------------------------------------------
(* C7 *)

\* C7: the contact check succeeds exactly when every occupied cell has no
\* occupied diagonal neighbour and has at most one occupied orthogonal
\* neighbour or exactly the collinear pair; cells outside the board count
\* as empty.
C7_ContactIff ==
    /\ (pc = "loop" /\ passed # <<>> /\ Last(passed) = "BattleShipsValidator")
          => ContactOK(field0)
    /\ (Returned /\ constructed # <<>>
        /\ Last(constructed) = "BattleShipsValidator")
          => (result = "False" /\ ~ContactOK(field0))

\* the contact check has rejected a board that has an occupied cell with
\* four occupied orthogonal neighbours and no occupied diagonal neighbour
C7_Witness ==
    /\ Returned
    /\ Last(constructed) = "BattleShipsValidator"
    /\ result = "False"
    /\ \E c \in Occupied(field0) :
          /\ OccupiedAround(field0, c[1], c[2], Orthogonal) = Orthogonal
          /\ OccupiedAround(field0, c[1], c[2], Diagonal) = {}

----------------------------------------------------------------------------
(* C8 *)

\* the cells after (i, j) of the run that starts there, downward if the run
\* goes down and rightward otherwise
Trailing(b, i, j) ==
    IF RunFrom(b, i, j, <<1, 0>>) > 1
    THEN {<<i + k, j>> : k \in 1..(RunFrom(b, i, j, <<1, 0>>) - 1)}
    ELSE {<<i, j + k>> : k \in 1..(RunFrom(b, i, j, <<0, 1>>) - 1)}

\* the length of the run that starts at (i, j), downward or rightward
RunLength(b, i, j) ==
    IF RunFrom(b, i, j, <<1, 0>>) > 1
    THEN RunFrom(b, i, j, <<1, 0>>)
    ELSE RunFrom(b, i, j, <<0, 1>>)

\* the scan of the fleet counter stands on a cell that is occupied in the
\* working copy, on a board that passed the contact check
AtOccupiedCell ==
    /\ pc = "BattleShipsQuantityValidator"
    /\ "BattleShipsValidator" \in {passed[k] : k \in DOMAIN passed}
    /\ Cell(Board, i_index, j_index) = 1

\* C8: when the scan of the fleet counter reaches a cell still occupied in
\* the working copy whose run downward or rightward has length L in 1..4,
\* the step decrements exactly remaining[L], zeroes exactly the L-1 trailing
\* cells of the run, leaves the origin and every other cell unchanged, and
\* no zeroed cell is ever counted as a ship.
C8_StepCountsOneShip ==
    [][(AtOccupiedCell /\ RunLength(Board, i_index, j_index) \in 1..4) =>
        LET L == RunLength(Board, i_index, j_index)
            T == Trailing(Board, i_index, j_index)
        IN  /\ ship_length_to_count' =
                  [ship_length_to_count EXCEPT ![L] = @ - 1]
            /\ Cardinality(T) = L - 1
            /\ \A c \in Coords :
                  Cell(Board', c[1], c[2]) =
                      IF c \in T THEN 0 ELSE Cell(Board, c[1], c[2])
            /\ Cell(Board', i_index, j_index) = 1
            /\ counted' = counted \cup {<<i_index, j_index, L>>}
            /\ {<<s[1], s[2]>> : s \in counted'} \cap zeroed' = {}
      ]_vars

\* the scan has counted a ship of each length 4, 3, 2 and 1, zeroing the
\* trailing cells of the flagman and leaving its origin occupied
C8_Witness ==
    /\ pc = "BattleShipsQuantityValidator"
    /\ {s[3] : s \in counted} = 1..4
    /\ \E s \in counted :
          /\ s[3] = 4
          /\ Cell(Board, s[1], s[2]) = 1
          /\ Cardinality({c \in zeroed : c[1] = s[1] \/ c[2] = s[2]}) >= 3

----------------------------------------------------------------------------
(* C9 *)

\* C9: whenever validate_battlefield returns true the caller's board holds
\* exactly 20 occupied cells, every one of them attributed to exactly one
\* counted ship, as its origin or as one of its zeroed trailing cells.
C9_TrueImpliesTwentyCells ==
    (Returned /\ result = "True") =>
        LET origins == {<<s[1], s[2]>> : s \in counted} IN
        /\ Cardinality(Occupied(field)) = 1 * 4 + 2 * 3 + 3 * 2 + 4 * 1
        /\ origins \cap zeroed = {}
        /\ origins \cup zeroed = Occupied(field0)
        /\ Cardinality(origins) = Cardinality(counted)
        /\ \A L \in 1..4 : Cardinality({s \in counted : s[3] = L}) = 5 - L

\* a board has been accepted after ten ships were counted
C9_Witness ==
    /\ Returned
    /\ result = "True"
    /\ Cardinality(counted) = 10
    /\ Cardinality(zeroed) = 10

----------------------------------------------------------------------------
(* C10 *)

\* the number of scan positions still ahead of a running validator
ScanLeft ==
    (board_length - i_index) * (board_length + 1) + (board_length - j_index)

PhaseSize == board_length * (board_length + 1) + board_length + 3

\* a number that every step of a call decreases
Measure ==
    IF pc = "return" THEN 0
    ELSE IF pc = "loop" THEN (3 - vi) * PhaseSize + 1
    ELSE (2 - vi) * PhaseSize + 2 + ScanLeft

\* the call is in progress, or has returned true or false: no index used by
\* a validator was out of range, and the call can always take its next step
NoIndexError ==
    /\ result \in {"none", "True", "False"}
    /\ Returned => result \in {"True", "False"}
    /\ Returned \/ ENABLED Next
    /\ Measure >= 0

\* C10: for every board of 0/1 cells of any dimensions validate_battlefield
\* terminates and returns true or false with no out-of-range cell access,
\* and every cell the fleet counter zeroes lies inside the board and was
\* occupied in the working copy immediately before being zeroed.
C10_TerminatesInRange ==
    /\ []NoIndexError
    /\ [][/\ ~Returned => Measure' < Measure
          /\ \A c \in zeroed' \ zeroed :
                /\ c \in Coords
                /\ Cell(Board, c[1], c[2]) = 1
                /\ Cell(Board', c[1], c[2]) = 0
         ]_vars

\* a call has returned after the fleet counter looked past the last row and
\* the last column and zeroed cells of both
C10_Witness ==
    /\ Returned
    /\ result \in {"True", "False"}
    /\ \E c \in zeroed : c[1] = board_length - 1
    /\ \E c \in zeroed : c[2] = board_length - 1

====
